---- MODULE Spec2Model ----
(***************************************************************************)
(* A model of lingvo/core/tpu_embedding_layers_v2.py: the process-wide     *)
(* singleton _TPUEmbeddingManager (TPU_EMBEDDING_MANAGER) and the          *)
(* TPUEmbeddingLayer objects that initialise and consult it.               *)
(*                                                                         *)
(* A NestedMap is modelled as a TLA+ function from feature keys to values; *)
(* a map of id tensors is modelled by its key set (the manager only reads  *)
(* the keys of an ids map).  Activation and gradient tensors are modelled  *)
(* as integers.  The wrapped tpu_embedding_v2.TPUEmbedding object is       *)
(* external: the calls made on it are recorded, its dequeue() returns any  *)
(* activations packed in the structure of its feature_config, and its      *)
(* constructor either returns an object or raises.                         *)
(***************************************************************************)
EXTENDS Integers, Sequences, FiniteSets, TLC

VARIABLES
  enabled,                       \* _TPUEmbeddingManager.enabled
  tpu_embedding,                 \* _TPUEmbeddingManager._tpu_embedding
  feature_names,                 \* _TPUEmbeddingManager._feature_names
  gradient_multiplier_schedule,  \* _TPUEmbeddingManager._gradient_multiplier_schedule
  sequence_features,             \* _TPUEmbeddingManager._sequence_features
  activations,                   \* _TPUEmbeddingManager._activations
  layers,                        \* the TPUEmbeddingLayer objects of the process
  isTpuTraining,                 \* py_utils.IsTpuTraining(p) of this process
  sinceEnqueue,                  \* an Enqueue ran and no Dequeue has run since
  last                           \* the last operation: inputs, outcome, external calls

vars == <<enabled, tpu_embedding, feature_names, gradient_multiplier_schedule,
          sequence_features, activations, layers, isTpuTraining, sinceEnqueue,
          last>>

manager == <<enabled, tpu_embedding, feature_names,
             gradient_multiplier_schedule, sequence_features, activations>>

(***************************************************************************)
(* Bounds of the model.                                                    *)
(***************************************************************************)
NumLayers == 2      \* TPUEmbeddingLayer objects built in the process
MaxVal == 1         \* activation values are 1..MaxVal
MaxGrad == 1        \* gradient values are 1..MaxGrad
MaxMult == 1        \* gradient multiplier schedule values are 0..MaxMult

Keys == {"a", "b"}
Layers == 1..NumLayers
Vals == 1..MaxVal
Grads == 1..MaxGrad
Mults == 0..MaxMult

(***************************************************************************)
(* NestedMap helpers.                                                      *)
(***************************************************************************)
EmptyMap == << >>

MapsOver(S, V) == UNION {[D -> V] : D \in SUBSET S}

GetSlice(m, ks) == [k \in ks |-> m[k]]

Update(m, n) ==
  [k \in (DOMAIN m) \cup (DOMAIN n) |-> IF k \in DOMAIN n THEN n[k] ELSE m[k]]

RECURSIVE SumOver(_, _)
SumOver(m, ks) ==
  IF ks = {} THEN 0
  ELSE LET k == CHOOSE x \in ks : TRUE
       IN  m[k] * m[k] + SumOver(m, ks \ {k})

SumSquared(m) == SumOver(m, DOMAIN m)

Sqrt(n) == [sqrt |-> n]

UnitWeight == 1

(***************************************************************************)
(* Values of the optional arguments and fields.                            *)
(***************************************************************************)
None == [id |-> 0, feature_config |-> {}]

NoSchedule == 0

NoIds == [given |-> FALSE, keys |-> {}]

Ids(ks) == [given |-> TRUE, keys |-> ks]

IdsArgs == {NoIds} \cup {Ids(ks) : ks \in SUBSET Keys}

Provided(ids) == ids.given

Truthy(ids) == ids.given /\ ids.keys # {}

ExternalEmbeddings ==
  {[id |-> NumLayers + j, feature_config |-> Keys] : j \in {1, 2}}

(***************************************************************************)
(* Table and layer parameters.                                             *)
(***************************************************************************)
Table(ks, n) == [input_keys |-> ks, max_sequence_length |-> n]

LayerParams ==
  { << Table({"a"}, 0) >>,
    << Table({"a"}, 0), Table({"a", "b"}, 3) >> }

\* The layers are built alternately with the one-table parameters and
\* with the parameters that declare key "a" in two tables.
TablesOf(l) ==
  IF l % 2 = 1 THEN << Table({"a"}, 0) >>
  ELSE << Table({"a"}, 0), Table({"a", "b"}, 3) >>

NewLayer(ts) ==
  [tables |-> ts, tpu_embedding_manager |-> FALSE, status |-> "new"]

Record(op, l, err, calls, result) ==
  [op |-> op, layer |-> l, error |-> err, calls |-> calls, result |-> result,
   ids |-> NoIds, arg |-> EmptyMap, fwd |-> EmptyMap, ref |-> None,
   mult |-> 0]

Init ==
  /\ enabled = FALSE
  /\ tpu_embedding = None
  /\ feature_names = {}
  /\ gradient_multiplier_schedule = NoSchedule
  /\ sequence_features = {}
  /\ activations = EmptyMap
  /\ layers = [l \in Layers |-> NewLayer(TablesOf(l))]
  /\ isTpuTraining \in BOOLEAN
  /\ sinceEnqueue = FALSE
  /\ last = Record("init", 0, "none", << >>, EmptyMap)

(***************************************************************************)
(* _TPUEmbeddingManager.tpu_embedding setter.                              *)
(***************************************************************************)
NeverRaises(current) == FALSE

SetterRaises(current) == current # None

SetTpuEmbedding(ref) ==
  /\ IF SetterRaises(tpu_embedding)
       THEN /\ UNCHANGED tpu_embedding
            /\ last' = [Record("SetTpuEmbedding", 0, "AlreadySet", << >>,
                               EmptyMap) EXCEPT !.ref = ref]
       ELSE /\ tpu_embedding' = ref
            /\ last' = [Record("SetTpuEmbedding", 0, "none", << >>,
                               EmptyMap) EXCEPT !.ref = ref]
  /\ UNCHANGED <<enabled, feature_names, gradient_multiplier_schedule,
                 sequence_features, activations, layers, isTpuTraining,
                 sinceEnqueue>>

(***************************************************************************)
(* _TPUEmbeddingManager.Enqueue.                                           *)
(***************************************************************************)
KeepActivations(acts) == acts

EnqueueActivations(acts) == EmptyMap

EnqueueForwards(en) == en

Enqueue(batch) ==
  /\ activations' = EnqueueActivations(activations)
  /\ sinceEnqueue' = TRUE
  /\ IF EnqueueForwards(enabled)
       THEN IF tpu_embedding = None
              THEN last' = [Record("Enqueue", 0, "AttributeError", << >>,
                                   EmptyMap) EXCEPT !.arg = batch]
              ELSE last' = [Record("Enqueue", 0, "none", << "enqueue" >>,
                                   EmptyMap)
                              EXCEPT !.arg = batch, !.fwd = batch]
       ELSE last' = [Record("Enqueue", 0, "none", << >>, EmptyMap)
                       EXCEPT !.arg = batch]
  /\ UNCHANGED <<enabled, tpu_embedding, feature_names,
                 gradient_multiplier_schedule, sequence_features, layers,
                 isTpuTraining>>

(***************************************************************************)
(* _TPUEmbeddingManager.Dequeue.  The activations that the coordinator's   *)
(* dequeue() returns are packed in the structure of its feature_config.    *)
(***************************************************************************)
AlwaysFetches(en) == TRUE

DequeueFetches(en) == en

DequeueOutputs(coordinator) == [coordinator.feature_config -> Vals]

DequeueStore(acts, dequeued) == dequeued

Dequeue ==
  /\ sinceEnqueue' = FALSE
  /\ IF DequeueFetches(enabled)
       THEN IF tpu_embedding = None
              THEN /\ UNCHANGED activations
                   /\ last' = Record("Dequeue", 0, "AttributeError", << >>,
                                     EmptyMap)
              ELSE \E dequeued \in DequeueOutputs(tpu_embedding) :
                     /\ activations' = DequeueStore(activations, dequeued)
                     /\ last' = [Record("Dequeue", 0, "none",
                                        << "dequeue", "watch" >>,
                                        activations')
                                   EXCEPT !.fwd = dequeued]
       ELSE /\ UNCHANGED activations
            /\ last' = Record("Dequeue", 0, "none", << >>, activations)
  /\ UNCHANGED <<enabled, tpu_embedding, feature_names,
                 gradient_multiplier_schedule, sequence_features, layers,
                 isTpuTraining>>

(***************************************************************************)
(* _TPUEmbeddingManager.Lookup.                                            *)
(***************************************************************************)
LookupResult(ids, en, acts) ==
  IF Truthy(ids) /\ en
    THEN GetSlice(acts, ids.keys \cap DOMAIN acts)
    ELSE acts

Lookup(ids) ==
  /\ last' = [Record("Lookup", 0, "none", << >>,
                     LookupResult(ids, enabled, activations))
                EXCEPT !.ids = ids]
  /\ UNCHANGED <<enabled, tpu_embedding, feature_names,
                 gradient_multiplier_schedule, sequence_features, activations,
                 layers, isTpuTraining, sinceEnqueue>>

(***************************************************************************)
(* _TPUEmbeddingManager.ApplyGradients.                                    *)
(***************************************************************************)
ApplyReturnsEmpty(en) == ~en

Scale(g, multiplier) == g * multiplier

ScaledGrads(gradients, multiplier) ==
  [k \in DOMAIN gradients |-> Scale(gradients[k], multiplier)]

Metrics(acts, scaled_grads, multiplier) ==
  [tpu_embedding_activation_norm |->
     << Sqrt(SumSquared(LookupResult(NoIds, TRUE, acts))), UnitWeight >>,
   tpu_embedding_grad_norm |->
     << Sqrt(SumSquared(scaled_grads)), UnitWeight >>,
   tpu_embedding_gradient_multiplier |-> << multiplier, UnitWeight >>]

ApplyGradients(gradients) ==
  /\ IF ApplyReturnsEmpty(enabled)
       THEN last' = [Record("ApplyGradients", 0, "none", << >>, EmptyMap)
                       EXCEPT !.arg = gradients]
       ELSE IF gradient_multiplier_schedule = NoSchedule
              THEN last' = [Record("ApplyGradients", 0, "AttributeError",
                                   << >>, EmptyMap)
                              EXCEPT !.arg = gradients]
              ELSE \E multiplier \in Mults :
                     LET scaled_grads == ScaledGrads(gradients, multiplier)
                     IN  IF tpu_embedding = None
                           THEN last' =
                                  [Record("ApplyGradients", 0,
                                          "AttributeError", << "Value" >>,
                                          EmptyMap)
                                     EXCEPT !.arg = gradients,
                                            !.mult = multiplier]
                           ELSE last' =
                                  [Record("ApplyGradients", 0, "none",
                                          << "Value", "apply_gradients" >>,
                                          Metrics(activations, scaled_grads,
                                                  multiplier))
                                     EXCEPT !.arg = gradients,
                                            !.fwd = scaled_grads,
                                            !.mult = multiplier]
  /\ UNCHANGED <<enabled, tpu_embedding, feature_names,
                 gradient_multiplier_schedule, sequence_features, activations,
                 layers, isTpuTraining, sinceEnqueue>>

(***************************************************************************)
(* TPUEmbeddingLayer._CreateLayerVariables.  The TPUEmbedding constructor  *)
(* is external: it returns an object (constructs) or raises.               *)
(***************************************************************************)
FeatureConfigKeys(tables) ==
  UNION {tables[i].input_keys : i \in DOMAIN tables}

SequenceFeatures(tables) ==
  UNION {tables[i].input_keys :
           i \in {j \in DOMAIN tables : tables[j].max_sequence_length > 0}}

KeyCount(tables, key) ==
  Cardinality({i \in DOMAIN tables : key \in tables[i].input_keys})

KeyUsedByMultipleTables(tables) ==
  \E key \in FeatureConfigKeys(tables) : KeyCount(tables, key) > 1

(***************************************************************************)
(* _TPUEmbeddingManager.feature_names, sequence_features and               *)
(* gradient_multiplier_schedule setters: each stores its argument.         *)
(***************************************************************************)
FeatureNamesArgs == {FeatureConfigKeys(ts) : ts \in LayerParams} \cup {Keys}

SequenceFeaturesArgs ==
  {SequenceFeatures(ts) : ts \in LayerParams} \cup {{"b"}}

ScheduleArgs == {NoSchedule} \cup Layers

SetFeatureNames(names) ==
  /\ feature_names' = names
  /\ last' = Record("SetFeatureNames", 0, "none", << >>, EmptyMap)
  /\ UNCHANGED <<enabled, tpu_embedding, gradient_multiplier_schedule,
                 sequence_features, activations, layers, isTpuTraining,
                 sinceEnqueue>>

SetSequenceFeatures(features) ==
  /\ sequence_features' = features
  /\ last' = Record("SetSequenceFeatures", 0, "none", << >>, EmptyMap)
  /\ UNCHANGED <<enabled, tpu_embedding, feature_names,
                 gradient_multiplier_schedule, activations, layers,
                 isTpuTraining, sinceEnqueue>>

SetGradientMultiplierSchedule(schedule) ==
  /\ gradient_multiplier_schedule' = schedule
  /\ last' = Record("SetGradientMultiplierSchedule", 0, "none", << >>,
                    EmptyMap)
  /\ UNCHANGED <<enabled, tpu_embedding, feature_names, sequence_features,
                 activations, layers, isTpuTraining, sinceEnqueue>>

AlwaysUninitialized(en) == TRUE

ManagerUninitialized(en) == ~en

BuiltEmbedding(l, tables) ==
  [id |-> l, feature_config |-> FeatureConfigKeys(tables)]

CreateLayerVariables(l, constructs) ==
  /\ layers[l].status = "new"
  /\ LET tables == layers[l].tables
         built == BuiltEmbedding(l, tables)
         Rec(err, calls, ref) ==
           [Record("CreateLayerVariables", l, err, calls, EmptyMap)
              EXCEPT !.ref = ref]
     IN  IF ~isTpuTraining \/ ~ManagerUninitialized(enabled)
           THEN /\ layers' = [layers EXCEPT ![l].status = "done"]
                /\ last' = Rec("none", << >>, None)
                /\ UNCHANGED manager
           ELSE /\ enabled' = TRUE
                /\ UNCHANGED activations
                /\ IF ~constructs
                     THEN /\ layers' = [layers EXCEPT ![l].status = "failed"]
                          /\ last' = Rec("ConstructorError",
                                         << "TPUEmbedding" >>, None)
                          /\ UNCHANGED <<tpu_embedding, feature_names,
                                         gradient_multiplier_schedule,
                                         sequence_features>>
                     ELSE IF SetterRaises(tpu_embedding)
                            THEN /\ layers' =
                                      [layers EXCEPT ![l].status = "failed"]
                                 /\ last' = Rec("AlreadySet",
                                                << "TPUEmbedding" >>, built)
                                 /\ UNCHANGED <<tpu_embedding, feature_names,
                                                gradient_multiplier_schedule,
                                                sequence_features>>
                            ELSE /\ tpu_embedding' = built
                                 /\ gradient_multiplier_schedule' = l
                                 /\ sequence_features' =
                                      SequenceFeatures(tables)
                                 /\ IF KeyUsedByMultipleTables(tables)
                                      THEN /\ layers' =
                                                [layers EXCEPT
                                                   ![l].status = "failed"]
                                           /\ last' =
                                                Rec("KeyUsedByMultipleTables",
                                                    << "TPUEmbedding" >>,
                                                    built)
                                           /\ UNCHANGED feature_names
                                      ELSE /\ feature_names' =
                                                FeatureConfigKeys(tables)
                                           /\ layers' =
                                                [layers EXCEPT
                                                   ![l].status = "done",
                                                   ![l].tpu_embedding_manager
                                                      = TRUE]
                                           /\ last' =
                                                Rec("none",
                                                    << "TPUEmbedding" >>,
                                                    built)
  /\ UNCHANGED <<isTpuTraining, sinceEnqueue>>

(***************************************************************************)
(* TPUEmbeddingLayer._CheckIdsMap and TPUEmbeddingLayer.EmbLookup.         *)
(***************************************************************************)
ValidKeys(tables) == UNION {tables[i].input_keys : i \in DOMAIN tables}

NoInvalidKeys(ks, tables) == {}

InvalidKeys(ks, tables) == ks \ ValidKeys(tables)

CpuEmbLookup(n, slice) == [k \in slice |-> 0 - n]

RECURSIVE CpuLookup(_, _, _)
CpuLookup(tables, n, ks) ==
  IF n = 0 THEN EmptyMap
  ELSE Update(CpuLookup(tables, n - 1, ks),
              CpuEmbLookup(n, tables[n].input_keys \cap ks))

EmbLookup(l, ks) ==
  /\ layers[l].status = "done"
  /\ LET tables == layers[l].tables
         Rec(err, calls, result) ==
           [Record("EmbLookup", l, err, calls, result)
              EXCEPT !.ids = Ids(ks)]
     IN  IF InvalidKeys(ks, tables) # {}
           THEN last' = Rec("InvalidInputKeys", << >>, EmptyMap)
           ELSE IF isTpuTraining
                  THEN IF ~layers[l].tpu_embedding_manager
                         THEN last' = Rec("AttributeError", << >>, EmptyMap)
                         ELSE last' =
                                Rec("none", << "Lookup" >>,
                                    LookupResult(Ids(ks), enabled,
                                                 activations))
                  ELSE last' =
                         Rec("none",
                             [i \in DOMAIN tables |-> "CpuEmbLookup"],
                             CpuLookup(tables, Len(tables), ks))
  /\ UNCHANGED <<enabled, tpu_embedding, feature_names,
                 gradient_multiplier_schedule, sequence_features, activations,
                 layers, isTpuTraining, sinceEnqueue>>

Next ==
  \/ \E ref \in ExternalEmbeddings : SetTpuEmbedding(ref)
  \/ \E names \in FeatureNamesArgs : SetFeatureNames(names)
  \/ \E features \in SequenceFeaturesArgs : SetSequenceFeatures(features)
  \/ \E schedule \in ScheduleArgs : SetGradientMultiplierSchedule(schedule)
  \/ \E batch \in MapsOver(Keys, {0}) : Enqueue(batch)
  \/ Dequeue
  \/ \E ids \in IdsArgs : Lookup(ids)
  \/ \E gradients \in MapsOver(Keys, Grads) : ApplyGradients(gradients)
  \/ \E l \in Layers, constructs \in BOOLEAN :
       CreateLayerVariables(l, constructs)
  \/ \E l \in Layers, ks \in SUBSET Keys : EmbLookup(l, ks)

Spec == Init /\ [][Next]_vars

(***************************************************************************)
(* Properties.                                                             *)
(***************************************************************************)
ManagerOps == {"Enqueue", "Dequeue", "Lookup", "ApplyGradients"}

Declared(l) ==
  {k \in Keys : \E i \in DOMAIN layers[l].tables :
                  k \in layers[l].tables[i].input_keys}

Occurrences(calls, name) ==
  Cardinality({i \in DOMAIN calls : calls[i] = name})

\* C1: the tpu_embedding setter stores the reference only while none is
\* set; every set attempt made while one is set fails with an error and
\* leaves the whole manager unchanged, and no operation ever changes a
\* coordinator reference that has been set.
C1_SetOnce ==
  [][ /\ (tpu_embedding # None => tpu_embedding' = tpu_embedding)
      /\ (last'.op = "SetTpuEmbedding" =>
            IF tpu_embedding = None
              THEN /\ last'.error = "none"
                   /\ tpu_embedding' = last'.ref
              ELSE /\ last'.error = "AlreadySet"
                   /\ manager' = manager
                   /\ layers' = layers) ]_vars

C1_Witness ==
  /\ last.op = "SetTpuEmbedding"
  /\ last.error = "AlreadySet"
  /\ tpu_embedding # None
  /\ tpu_embedding # last.ref

\* C2: while enabled is false, Enqueue and Dequeue leave and return an
\* empty activation mapping, ApplyGradients returns an empty metrics
\* mapping, and no manager operation calls the coordinator or reads the
\* gradient multiplier schedule.
C2_DisabledPassThrough ==
  [][ (~enabled /\ last'.op \in ManagerOps) =>
        /\ last'.calls = << >>
        /\ last'.error = "none"
        /\ (last'.op \in {"Enqueue", "Dequeue"} =>
              activations' = EmptyMap /\ last'.result = EmptyMap)
        /\ (last'.op = "ApplyGradients" => last'.result = EmptyMap) ]_vars

C2_Witness ==
  /\ ~enabled
  /\ tpu_embedding # None
  /\ last.op = "Dequeue"

\* C3: Enqueue empties the cached activations whether or not the manager
\* is enabled, so from an Enqueue until the next Dequeue the cache is empty
\* and every Lookup, with or without requested keys, returns an empty
\* mapping.
C3_EnqueueClears ==
  sinceEnqueue =>
    /\ activations = EmptyMap
    /\ (last.op = "Lookup" => last.result = EmptyMap)
    /\ (last.op = "EmbLookup" /\ last.calls = << "Lookup" >> =>
          last.result = EmptyMap)

C3_Witness ==
  /\ sinceEnqueue
  /\ enabled
  /\ tpu_embedding # None
  /\ last.op = "Lookup"
  /\ last.ids = Ids(Keys)

\* C4 (as claimed): when enabled, every Dequeue calls the coordinator's
\* dequeue exactly once, replaces the cache by exactly what that call
\* returned and returns it, so the cache's keys are the keys the coordinator
\* produced.
C4_Claim ==
  (enabled /\ last.op = "Dequeue") =>
    /\ last.error = "none"
    /\ Occurrences(last.calls, "dequeue") = 1
    /\ activations = last.fwd
    /\ last.result = last.fwd
    /\ DOMAIN activations = tpu_embedding.feature_config

\* C5 (as claimed): when enabled, Lookup with a set of requested keys
\* returns exactly the cached entries whose keys are both requested and
\* cached.
C5_Claim ==
  (enabled /\ last.op = "Lookup" /\ last.ids.given) =>
    /\ last.error = "none"
    /\ DOMAIN last.result = last.ids.keys \cap DOMAIN activations
    /\ \A k \in DOMAIN last.result : last.result[k] = activations[k]

\* C6 (as claimed): when enabled, ApplyGradients reads the schedule value m
\* once, forwards one mapping with the input's keys and every gradient
\* multiplied by m to the coordinator's apply_gradients, and returns the
\* three metrics, each with weight 1.0, the multiplier metric being m.
C6_Claim ==
  (enabled /\ last.op = "ApplyGradients") =>
    /\ last.error = "none"
    /\ last.calls = << "Value", "apply_gradients" >>
    /\ DOMAIN last.fwd = DOMAIN last.arg
    /\ \A k \in DOMAIN last.arg : last.fwd[k] = last.arg[k] * last.mult
    /\ DOMAIN last.result = {"tpu_embedding_activation_norm",
                             "tpu_embedding_grad_norm",
                             "tpu_embedding_gradient_multiplier"}
    /\ \A name \in DOMAIN last.result : last.result[name][2] = 1
    /\ last.result["tpu_embedding_gradient_multiplier"][1] = last.mult

\* C7 (as claimed): when a layer's variable-construction phase raises the
\* error for a key used by multiple tables, no coordinator object has been
\* constructed by that phase or stored on the manager.
C7_Claim ==
  (last.op = "CreateLayerVariables"
     /\ last.error = "KeyUsedByMultipleTables") =>
    /\ last.calls = << >>
    /\ last.ref = None
    /\ tpu_embedding.id # last.layer

\* C8: a variable-construction phase under TPU training that runs after
\* another layer's phase constructs no coordinator, raises no
\* double-initialization error and leaves the whole manager unchanged; and
\* no operation sets enabled back to false.
C8_FirstPhaseOnly ==
  [][ /\ (enabled => enabled')
      /\ (/\ last'.op = "CreateLayerVariables"
          /\ isTpuTraining
          /\ \E k \in Layers : layers[k].status # "new") =>
            /\ last'.calls = << >>
            /\ last'.ref = None
            /\ last'.error = "none"
            /\ manager' = manager ]_vars

C8_Witness ==
  /\ last.op = "CreateLayerVariables"
  /\ isTpuTraining
  /\ \E k \in Layers \ {last.layer} :
       /\ layers[k].status = "done"
       /\ layers[k].tpu_embedding_manager
       /\ layers[k].tables # layers[last.layer].tables

\* C9: EmbLookup with an ids map holding a key that no table of the layer
\* declares fails with the invalid-keys error before any lookup: no manager
\* Lookup, no CPU table lookup, manager unchanged; with declared keys only,
\* that error is not raised.
C9_InvalidKeys ==
  [][ last'.op = "EmbLookup" =>
        IF last'.ids.keys \subseteq Declared(last'.layer)
          THEN last'.error # "InvalidInputKeys"
          ELSE /\ last'.error = "InvalidInputKeys"
               /\ last'.calls = << >>
               /\ last'.result = EmptyMap
               /\ manager' = manager ]_vars

C9_Witness ==
  /\ last.op = "EmbLookup"
  /\ last.error = "InvalidInputKeys"
  /\ enabled
  /\ activations # EmptyMap

\* C10 (as claimed, for the processes in which a layer did initialise the
\* manager): under TPU training every layer whose variable-construction
\* phase completed holds a reference to the singleton manager, and its
\* EmbLookup with declared keys returns the manager's Lookup of those keys.
C10_Claim ==
  (isTpuTraining /\ \E k \in Layers : layers[k].tpu_embedding_manager) =>
    /\ \A l \in Layers :
         layers[l].status = "done" => layers[l].tpu_embedding_manager
    /\ (last.op = "EmbLookup"
          /\ last.ids.keys \subseteq Declared(last.layer)) =>
         /\ last.error = "none"
         /\ last.calls = << "Lookup" >>
         /\ last.result =
              GetSlice(activations, last.ids.keys \cap DOMAIN activations)

\* C11 (as claimed): in every state in which Enqueue, Dequeue or
\* ApplyGradients can be called, also after a variable-construction phase
\* aborted with an error, enabled implies that a coordinator reference is
\* set, so no manager operation fails on an unset coordinator or schedule.
C11_Claim ==
  /\ enabled => tpu_embedding # None
  /\ last.op \in ManagerOps => last.error = "none"

\* C12: Lookup slices the cache only when the requested key map is
\* non-empty and the manager is enabled; with an empty key map, with no key
\* map, or while disabled it returns the entire cache; in every case it
\* leaves the cache and the rest of the manager unchanged and calls no
\* coordinator method.
C12_LookupSlices ==
  [][ last'.op = "Lookup" =>
        /\ manager' = manager
        /\ last'.calls = << >>
        /\ last'.error = "none"
        /\ IF last'.ids.given /\ last'.ids.keys # {} /\ enabled
             THEN /\ DOMAIN last'.result =
                       last'.ids.keys \cap DOMAIN activations
                  /\ \A k \in DOMAIN last'.result :
                       last'.result[k] = activations[k]
             ELSE last'.result = activations ]_vars

C12_Witness ==
  /\ last.op = "Lookup"
  /\ last.ids = Ids({})
  /\ enabled
  /\ activations # EmptyMap
  /\ last.result = activations

====
